---- MODULE Spec2Model ----
(***************************************************************************)
(* pythonanywhere-core: the Schedule and Website API clients.              *)
(*                                                                         *)
(* Every public method is one synchronous invocation: it builds requests,  *)
(* blocks on each response and returns or raises.  The model keeps the     *)
(* process environment, the remote server's state and a record of the last *)
(* invocation: the method, its arguments, the network calls it issued (in  *)
(* order, with the response to each) and its outcome.                      *)
(*                                                                         *)
(* Python values are modelled as records, so that values of different      *)
(* Python types stay comparable: a dict is the record of its keys, a list  *)
(* is [items |-> <<...>>], True is [bool |-> TRUE], None is                *)
(* [none |-> TRUE].                                                        *)
(***************************************************************************)
EXTENDS Integers, Sequences, FiniteSets, TLC

VARIABLES environ, server, op

vars == <<environ, server, op>>

\* Number of task ids the server hands out before the model stops creating.
MaxTasks == 2

Domains == {"a.example.com", "b.example.com"}

DomainOrder == <<"a.example.com", "b.example.com">>

WebCommand == "uvicorn main:app"

User == "user"

----------------------------------------------------------------------------
(* Python values *)

PyList(s) == [items |-> s]

PyTrue == [bool |-> TRUE]

PyNone == [none |-> TRUE]

PyEmptyDict == [k \in {} |-> TRUE]

----------------------------------------------------------------------------
(* Process environment: a set of <<name, value>> pairs. *)

Environments == {{}, {<<"API_TOKEN", "">>}, {<<"API_TOKEN", "secret">>}}

\* `token is None` in place of `not token`: an empty token passes.
TokenMissingNoneOnly(env) ==
    \A e \in env : e[1] # "API_TOKEN"

\* os.environ.get("API_TOKEN") followed by `not token`: None and "" are falsy.
TokenMissing(env) ==
    \A e \in env : e[1] = "API_TOKEN" => e[2] = ""

----------------------------------------------------------------------------
(* Endpoint resolver and API invoker *)

\* /api/v0/user/{username}/{category}/ as its path segments.
get_api_endpoint(username, flavor) == <<"api", "v0", "user", username, flavor>>

schedule_base_url == get_api_endpoint(User, "schedule")

websites_base_url == get_api_endpoint(User, "websites")

domains_base_url == get_api_endpoint(User, "domains")

\* The HTTP method is case-insensitive: the transport sends it in upper case.
Upper(method) ==
    CASE method \in {"get", "GET"} -> "GET"
      [] method \in {"post", "POST"} -> "POST"
      [] method \in {"patch", "PATCH"} -> "PATCH"
      [] method \in {"delete", "DELETE"} -> "DELETE"

\* The request call_api puts on the wire; the environment's token travels
\* with it as the credential.
Request(url, method) ==
    [verb |-> Upper(method), url |-> url]

RequestJson(url, method, json) ==
    [verb |-> Upper(method), url |-> url, json |-> json]

----------------------------------------------------------------------------
(* Responses *)

\* Response.text: a body that decodes as JSON to `doc`, or one that does not.
JsonText(doc) == [json |-> TRUE, doc |-> doc]

HtmlText == [json |-> FALSE, raw |-> "<html></html>"]

EmptyText == [json |-> FALSE, raw |-> ""]

Response(status, text) == [status_code |-> status, text |-> text]

\* requests.Response.ok: True unless the status is a 4xx or a 5xx.
Ok(result) == ~(400 <= result.status_code /\ result.status_code < 600)

----------------------------------------------------------------------------
(* Outcomes of an invocation *)

Return(v) == [kind |-> "return", value |-> v]

\* f"<prefix> {result}: {result.text}": str(result) is "<Response [status]>".
RaiseApi(prefix, result) ==
    [kind |-> "raise", exc |-> "PythonAnywhereApiException",
     msg |-> [prefix |-> prefix, response |-> result.status_code,
              text |-> result.text]]

RaiseSanity(why) ==
    [kind |-> "raise", exc |-> "SanityException", msg |-> why]

NoTokenMessage == [text |-> "Could not find your API token."]

ConflictMessage(domain_name) ==
    [text |-> "You already have a webapp for", domain_name |-> domain_name]

\* Response.json() on a body that is not JSON.
RaiseDecode == [kind |-> "raise", exc |-> "JSONDecodeError"]

\* return result.json()
ReturnJson(result) ==
    IF result.text.json THEN Return(result.text.doc) ELSE RaiseDecode

----------------------------------------------------------------------------
(* The remote server: tasks, websites and certificates, and the REST        *)
(* contract by which it answers one request.                               *)

EmptyServer == [tasks |-> {}, nextId |-> 1, websites |-> {}, certs |-> {}]

\* dict.update: the keys of p override those of s.
Merge(s, p) ==
    [k \in DOMAIN s \cup DOMAIN p |-> IF k \in DOMAIN p THEN p[k] ELSE s[k]]

\* hour is required for a daily task and omitted for an hourly one.
TaskValid(spec) ==
    /\ {"command", "enabled", "interval", "minute"} \subseteq DOMAIN spec
    /\ spec.interval = "daily" <=> "hour" \in DOMAIN spec

TasksWithId(srv, idstr) == {t \in srv.tasks : ToString(t.id) = idstr}

SitesNamed(srv, name) == {w \in srv.websites : w.domain_name = name}

CertsNamed(srv, name) == {c \in srv.certs : c.domain_name = name}

RECURSIVE TaskList(_, _, _)
\* The tasks in ascending id order.
TaskList(srv, i, acc) ==
    IF i >= srv.nextId THEN acc
    ELSE LET here == {t \in srv.tasks : t.id = i}
         IN TaskList(srv, i + 1,
                     IF here = {} THEN acc ELSE Append(acc, CHOOSE t \in here : TRUE))

RECURSIVE SiteList(_, _, _)
SiteList(srv, i, acc) ==
    IF i > Len(DomainOrder) THEN acc
    ELSE LET here == SitesNamed(srv, DomainOrder[i])
         IN SiteList(srv, i + 1,
                     IF here = {} THEN acc ELSE Append(acc, CHOOSE w \in here : TRUE))

Answer(status, text, srv) == [resp |-> Response(status, text), srv |-> srv]

NotFound(srv) == Answer(404, JsonText([detail |-> "Not found."]), srv)

BadRequest(srv) == Answer(400, JsonText([detail |-> "Invalid request."]), srv)

ServeSchedule(req, srv) ==
    LET n == Len(req.url)
        found == IF n = 6 THEN TasksWithId(srv, req.url[6]) ELSE {}
        task == CHOOSE t \in found : TRUE
    IN CASE n = 5 /\ req.verb = "POST" ->
              IF TaskValid(req.json)
              THEN LET created == Merge(req.json, [id |-> srv.nextId])
                   IN Answer(201, JsonText(created),
                             [srv EXCEPT !.tasks = @ \cup {created},
                                         !.nextId = @ + 1])
              ELSE BadRequest(srv)
         [] n = 5 /\ req.verb = "GET" ->
              Answer(200, JsonText(PyList(TaskList(srv, 1, <<>>))), srv)
         [] n = 6 /\ found = {} -> NotFound(srv)
         [] n = 6 /\ found # {} /\ req.verb = "GET" ->
              Answer(200, JsonText(task), srv)
         [] n = 6 /\ found # {} /\ req.verb = "PATCH" ->
              LET updated == Merge(task, req.json)
              IN IF TaskValid(updated)
                 THEN Answer(200, JsonText(updated),
                             [srv EXCEPT !.tasks = (@ \ {task}) \cup {updated}])
                 ELSE BadRequest(srv)
         [] n = 6 /\ found # {} /\ req.verb = "DELETE" ->
              Answer(204, EmptyText, [srv EXCEPT !.tasks = @ \ {task}])
         [] OTHER -> Answer(405, JsonText([detail |-> "Method not allowed."]), srv)

ServeWebsites(req, srv) ==
    LET n == Len(req.url)
        found == IF n >= 6 THEN SitesNamed(srv, req.url[6]) ELSE {}
        site == CHOOSE w \in found : TRUE
    IN CASE n = 5 /\ req.verb = "POST" ->
              \* an existing website of that domain is replaced
              Answer(201, JsonText(req.json),
                     [srv EXCEPT !.websites =
                         (@ \ SitesNamed(srv, req.json.domain_name)) \cup {req.json}])
         [] n = 5 /\ req.verb = "GET" ->
              Answer(200, JsonText(PyList(SiteList(srv, 1, <<>>))), srv)
         [] n >= 6 /\ found = {} -> NotFound(srv)
         [] n = 6 /\ found # {} /\ req.verb = "GET" ->
              Answer(200, JsonText(site), srv)
         [] n = 6 /\ found # {} /\ req.verb = "DELETE" ->
              Answer(204, EmptyText,
                     [srv EXCEPT !.websites = @ \ {site},
                                 !.certs = @ \ CertsNamed(srv, site.domain_name)])
         [] n = 7 /\ found # {} /\ req.url[7] = "reload" /\ req.verb = "POST" ->
              Answer(200, JsonText([status |-> "OK"]), srv)
         [] OTHER -> Answer(405, JsonText([detail |-> "Method not allowed."]), srv)

ServeDomains(req, srv) ==
    LET n == Len(req.url)
        name == req.url[6]
        cert == CHOOSE c \in CertsNamed(srv, name) : TRUE
    IN CASE n = 7 /\ req.url[7] = "ssl" /\ req.verb = "POST" ->
              IF SitesNamed(srv, name) = {} THEN NotFound(srv)
              ELSE LET issued == [domain_name |-> name,
                                  info |-> [cert_type |-> req.json.cert_type,
                                            issuer |-> "Let's Encrypt"]]
                   IN Answer(200, JsonText([status |-> "OK"]),
                             [srv EXCEPT !.certs =
                                 (@ \ CertsNamed(srv, name)) \cup {issued}])
         [] n = 7 /\ req.url[7] = "ssl" /\ req.verb = "GET" ->
              IF CertsNamed(srv, name) = {} THEN NotFound(srv)
              ELSE Answer(200, JsonText(cert.info), srv)
         [] OTHER -> Answer(405, JsonText([detail |-> "Method not allowed."]), srv)

\* The credential the transport attaches is the environment's token.
Authenticated(env) == <<"API_TOKEN", "secret">> \in env

\* The server's answer to one request and its state afterwards.  A request
\* that carries no valid token is refused.
Serve(req, srv, env) ==
    IF ~Authenticated(env)
    THEN Answer(401, JsonText([detail |-> "Invalid token."]), srv)
    ELSE CASE req.url[5] = "schedule" -> ServeSchedule(req, srv)
           [] req.url[5] = "websites" -> ServeWebsites(req, srv)
           [] req.url[5] = "domains" -> ServeDomains(req, srv)

\* Answers outside the contract: a status with a JSON or a non-JSON body, the
\* server's state unchanged.
Faults ==
    {<<200, "json">>, <<200, "html">>, <<201, "json">>, <<204, "html">>,
     <<304, "html">>, <<500, "json">>}

Contract == <<0, "contract">>

Choices(faults) == {Contract} \cup (IF faults THEN Faults ELSE {})

\* One network round trip: the request, the response, the server afterwards.
Exchange(req, srv, env, c) ==
    LET ans == IF c = Contract THEN Serve(req, srv, env)
               ELSE Answer(c[1],
                           IF c[2] = "json" THEN JsonText([detail |-> "fault"])
                           ELSE HtmlText,
                           srv)
    IN [request |-> req, response |-> ans.resp, srv |-> ans.srv]

Call(ex) == [request |-> ex.request, response |-> ex.response]

----------------------------------------------------------------------------
(* Schedule *)

\* 200 taken for the success status of a creation.
ScheduleCreateOutcomeOn200(result) ==
    IF result.status_code = 200 THEN ReturnJson(result)
    ELSE IF ~Ok(result)
         THEN RaiseApi("POST to set new task via API failed, got", result)
         ELSE Return(PyNone)

\* Schedule.create: 201 returns the body; a response that is not ok raises;
\* anything else falls off the end of the method.
ScheduleCreateOutcome(result) ==
    IF result.status_code = 201 THEN ReturnJson(result)
    ELSE IF ~Ok(result)
         THEN RaiseApi("POST to set new task via API failed, got", result)
         ELSE Return(PyNone)

\* Every status but 204 raises.
ScheduleDeleteOutcomeStrict(result) ==
    IF result.status_code = 204 THEN Return(PyTrue)
    ELSE RaiseApi("DELETE via API on task failed, got", result)

\* 200 taken for the success status of a deletion.
ScheduleDeleteOutcomeOn200(result) ==
    IF result.status_code = 200 THEN Return(PyTrue)
    ELSE IF ~Ok(result)
         THEN RaiseApi("DELETE via API on task failed, got", result)
         ELSE Return(PyNone)

ScheduleDeleteOutcome(result) ==
    IF result.status_code = 204 THEN Return(PyTrue)
    ELSE IF ~Ok(result)
         THEN RaiseApi("DELETE via API on task failed, got", result)
         ELSE Return(PyNone)

ScheduleGetListOutcome(result) == ReturnJson(result)

\* `result.ok` in place of `result.status_code == 200`.
ScheduleGetSpecsOutcomeOnOk(result) ==
    IF Ok(result) THEN ReturnJson(result)
    ELSE RaiseApi("Could not get task with id. Got result", result)

ScheduleGetSpecsOutcome(result) ==
    IF result.status_code = 200 THEN ReturnJson(result)
    ELSE RaiseApi("Could not get task with id. Got result", result)

ScheduleUpdateOutcome(result) ==
    IF result.status_code = 200 THEN ReturnJson(result)
    ELSE RaiseApi("Could not update task. Got", result)

TaskUrl(task_id) == Append(schedule_base_url, ToString(task_id))

----------------------------------------------------------------------------
(* Website *)

DomainUrl(domain_name) == Append(websites_base_url, domain_name)

SslUrl(domain_name) == domains_base_url \o <<domain_name, "ssl">>

\* The probe's 200 is not taken for a conflict.
sanity_check_no_conflict(domain_name, nuke, env, srv, faults) ==
    IF TokenMissing(env)
    THEN {[calls |-> <<>>, outcome |-> RaiseSanity(NoTokenMessage), srv |-> srv]}
    ELSE IF nuke
    THEN {[calls |-> <<>>, outcome |-> Return(PyNone), srv |-> srv]}
    ELSE {LET ex == Exchange(Request(DomainUrl(domain_name), "get"), srv, env, c)
          IN [calls |-> <<Call(ex)>>, outcome |-> Return(PyNone), srv |-> ex.srv]
            : c \in Choices(faults)}

\* nuke does not skip the probe.
sanity_check_always_probes(domain_name, nuke, env, srv, faults) ==
    IF TokenMissing(env)
    THEN {[calls |-> <<>>, outcome |-> RaiseSanity(NoTokenMessage), srv |-> srv]}
    ELSE {LET ex == Exchange(Request(DomainUrl(domain_name), "get"), srv, env, c)
          IN [calls |-> <<Call(ex)>>,
              outcome |-> IF ex.response.status_code = 200 /\ ~nuke
                          THEN RaiseSanity(ConflictMessage(domain_name))
                          ELSE Return(PyNone),
              srv |-> ex.srv] : c \in Choices(faults)}

\* Website.sanity_check: every way the method can run, each with the calls it
\* issued, its outcome and the server afterwards; one run per answer the
\* server can give to the probe, when the probe is made.
sanity_check(domain_name, nuke, env, srv, faults) ==
    IF TokenMissing(env)
    THEN {[calls |-> <<>>, outcome |-> RaiseSanity(NoTokenMessage), srv |-> srv]}
    ELSE IF nuke
    THEN {[calls |-> <<>>, outcome |-> Return(PyNone), srv |-> srv]}
    ELSE {LET ex == Exchange(Request(DomainUrl(domain_name), "get"), srv, env, c)
          IN [calls |-> <<Call(ex)>>,
              outcome |-> IF ex.response.status_code = 200
                          THEN RaiseSanity(ConflictMessage(domain_name))
                          ELSE Return(PyNone),
              srv |-> ex.srv] : c \in Choices(faults)}

CreateJson(domain_name, command) ==
    [domain_name |-> domain_name, enabled |-> TRUE,
     webapp |-> [command |-> command]]

\* A POST that fails is issued once more.
create_after_retry(check, domain_name, command, env, faults) ==
    IF check.outcome.kind = "raise" THEN {check}
    ELSE LET req == RequestJson(websites_base_url, "post",
                                CreateJson(domain_name, command))
         IN UNION {LET ex == Exchange(req, check.srv, env, c)
                   IN IF Ok(ex.response)
                      THEN {[calls |-> Append(check.calls, Call(ex)),
                             outcome |-> ReturnJson(ex.response),
                             srv |-> ex.srv]}
                      ELSE {LET again == Exchange(req, ex.srv, env, d)
                            IN [calls |-> check.calls \o <<Call(ex), Call(again)>>,
                                outcome |-> ReturnJson(again.response),
                                srv |-> again.srv] : d \in Choices(faults)}
                     : c \in Choices(faults)}

\* The rest of Website.create after a sanity check that ran as `check`: its
\* exception propagates; otherwise the POST follows and its decoded body is
\* returned, whatever the status.
create_after(check, domain_name, command, env, faults) ==
    IF check.outcome.kind = "raise" THEN {check}
    ELSE {LET ex == Exchange(RequestJson(websites_base_url, "post",
                                         CreateJson(domain_name, command)),
                             check.srv, env, c)
          IN [calls |-> Append(check.calls, Call(ex)),
              outcome |-> ReturnJson(ex.response),
              srv |-> ex.srv] : c \in Choices(faults)}

\* Website.create
create(domain_name, command, nuke, env, srv, faults) ==
    UNION {create_after(check, domain_name, command, env, faults) :
             check \in sanity_check(domain_name, nuke, env, srv, faults)}

WebsiteGetOutcome(response) == ReturnJson(response)

WebsiteListOutcome(response) == ReturnJson(response)

WebsiteReloadOutcome(response) == ReturnJson(response)

AutoSslJson == [cert_type |-> "letsencrypt-auto-renew"]

WebsiteAutoSslOutcome(response) == ReturnJson(response)

\* No check of `response.ok`, as in Website.get.
WebsiteGetSslInfoOutcomeUnchecked(response) == ReturnJson(response)

WebsiteGetSslInfoOutcome(response) ==
    IF ~Ok(response)
    THEN RaiseApi("GET SSL details via API failed, got", response)
    ELSE ReturnJson(response)

WebsiteDeleteOutcome(response) == Return(PyEmptyDict)

----------------------------------------------------------------------------
(* Inputs *)

HourlyTask ==
    [command |-> "echo hi", enabled |-> TRUE, interval |-> "hourly", minute |-> 5]

DailyNoHour ==
    [command |-> "echo hi", enabled |-> TRUE, interval |-> "daily", minute |-> 5]

TaskParams == {HourlyTask, DailyNoHour}

Patches == {[enabled |-> FALSE], [interval |-> "daily"]}

TaskIds == 1..MaxTasks

----------------------------------------------------------------------------
(* The state machine: one action per public method.  `faults` says whether *)
(* the server may answer outside its contract.                             *)

NoOp == [method |-> "none", args |-> PyEmptyDict, calls |-> <<>>,
         outcome |-> Return(PyNone)]

Init ==
    /\ environ \in Environments
    /\ server = EmptyServer
    /\ op = NoOp

\* A method that issues one request and maps the response to its outcome.
Invoke(method, args, ex, outcome) ==
    /\ op' = [method |-> method, args |-> args, calls |-> <<Call(ex)>>,
              outcome |-> outcome]
    /\ server' = ex.srv
    /\ UNCHANGED environ

ScheduleCreate(faults) ==
    /\ server.nextId <= MaxTasks
    /\ \E params \in TaskParams, c \in Choices(faults) :
         LET ex == Exchange(RequestJson(schedule_base_url, "POST", params),
                            server, environ, c)
         IN Invoke("Schedule.create", [params |-> params], ex,
                   ScheduleCreateOutcome(ex.response))

ScheduleDelete(faults) ==
    \E task_id \in TaskIds, c \in Choices(faults) :
       LET ex == Exchange(Request(TaskUrl(task_id), "DELETE"), server, environ, c)
       IN Invoke("Schedule.delete", [task_id |-> task_id], ex,
                 ScheduleDeleteOutcome(ex.response))

ScheduleGetList(faults) ==
    \E c \in Choices(faults) :
       LET ex == Exchange(Request(schedule_base_url, "GET"), server, environ, c)
       IN Invoke("Schedule.get_list", PyEmptyDict, ex,
                 ScheduleGetListOutcome(ex.response))

ScheduleGetSpecs(faults) ==
    \E task_id \in TaskIds, c \in Choices(faults) :
       LET ex == Exchange(Request(TaskUrl(task_id), "GET"), server, environ, c)
       IN Invoke("Schedule.get_specs", [task_id |-> task_id], ex,
                 ScheduleGetSpecsOutcome(ex.response))

ScheduleUpdate(faults) ==
    \E task_id \in TaskIds, params \in Patches, c \in Choices(faults) :
       LET ex == Exchange(RequestJson(TaskUrl(task_id), "PATCH", params),
                          server, environ, c)
       IN Invoke("Schedule.update", [task_id |-> task_id, params |-> params], ex,
                 ScheduleUpdateOutcome(ex.response))

\* A Website method whose calls, outcome and server effect are in `run`.
Ran(method, args, run) ==
    /\ op' = [method |-> method, args |-> args, calls |-> run.calls,
              outcome |-> run.outcome]
    /\ server' = run.srv
    /\ UNCHANGED environ

WebsiteSanityCheck(faults) ==
    \E domain_name \in Domains, nuke \in BOOLEAN :
       \E run \in sanity_check(domain_name, nuke, environ, server, faults) :
          Ran("Website.sanity_check",
              [domain_name |-> domain_name, nuke |-> nuke], run)

WebsiteCreate(faults) ==
    \E domain_name \in Domains, nuke \in BOOLEAN :
       \E run \in create(domain_name, WebCommand, nuke, environ, server, faults) :
          Ran("Website.create",
              [domain_name |-> domain_name, command |-> WebCommand,
               nuke |-> nuke], run)

WebsiteGet(faults) ==
    \E domain_name \in Domains, c \in Choices(faults) :
       LET ex == Exchange(Request(DomainUrl(domain_name), "get"), server, environ, c)
       IN Invoke("Website.get", [domain_name |-> domain_name], ex,
                 WebsiteGetOutcome(ex.response))

WebsiteList(faults) ==
    \E c \in Choices(faults) :
       LET ex == Exchange(Request(websites_base_url, "get"), server, environ, c)
       IN Invoke("Website.list", PyEmptyDict, ex, WebsiteListOutcome(ex.response))

WebsiteReload(faults) ==
    \E domain_name \in Domains, c \in Choices(faults) :
       LET ex == Exchange(Request(Append(DomainUrl(domain_name), "reload"), "post"),
                          server, environ, c)
       IN Invoke("Website.reload", [domain_name |-> domain_name], ex,
                 WebsiteReloadOutcome(ex.response))

WebsiteAutoSsl(faults) ==
    \E domain_name \in Domains, c \in Choices(faults) :
       LET ex == Exchange(RequestJson(SslUrl(domain_name), "post", AutoSslJson),
                          server, environ, c)
       IN Invoke("Website.auto_ssl", [domain_name |-> domain_name], ex,
                 WebsiteAutoSslOutcome(ex.response))

WebsiteGetSslInfo(faults) ==
    \E domain_name \in Domains, c \in Choices(faults) :
       LET ex == Exchange(Request(SslUrl(domain_name), "get"), server, environ, c)
       IN Invoke("Website.get_ssl_info", [domain_name |-> domain_name], ex,
                 WebsiteGetSslInfoOutcome(ex.response))

WebsiteDelete(faults) ==
    \E domain_name \in Domains, c \in Choices(faults) :
       LET ex == Exchange(Request(DomainUrl(domain_name), "delete"),
                          server, environ, c)
       IN Invoke("Website.delete", [domain_name |-> domain_name], ex,
                 WebsiteDeleteOutcome(ex.response))

Methods(faults) ==
    \/ ScheduleCreate(faults)
    \/ ScheduleDelete(faults)
    \/ ScheduleGetList(faults)
    \/ ScheduleGetSpecs(faults)
    \/ ScheduleUpdate(faults)
    \/ WebsiteSanityCheck(faults)
    \/ WebsiteCreate(faults)
    \/ WebsiteGet(faults)
    \/ WebsiteList(faults)
    \/ WebsiteReload(faults)
    \/ WebsiteAutoSsl(faults)
    \/ WebsiteGetSslInfo(faults)
    \/ WebsiteDelete(faults)

\* Any environment, a server that may answer anything.
Next == Methods(TRUE)

Spec == Init /\ [][Next]_vars

\* A token in the environment, a server that keeps to its contract.
InitContract ==
    /\ environ = {<<"API_TOKEN", "secret">>}
    /\ server = EmptyServer
    /\ op = NoOp

NextContract == Methods(FALSE)

SpecContract == InitContract /\ [][NextContract]_vars

----------------------------------------------------------------------------
(* Properties *)

Is2xx(result) == 200 <= result.status_code /\ result.status_code < 300

TokenAbsentOrEmpty == environ \in {{}, {<<"API_TOKEN", "">>}}

Ran_(method) == op.method = method

\* The response to the i-th call of the last invocation.
Reply(i) == op.calls[i].response

Asked(i) == op.calls[i].request

ProbeOf(domain_name) == Request(DomainUrl(domain_name), "GET")

PostOf(domain_name, command) ==
    RequestJson(websites_base_url, "POST", CreateJson(domain_name, command))

IsPost(call) == call.request.verb = "POST"

ConflictRaised ==
    /\ op.outcome.kind = "raise"
    /\ op.outcome.exc = "SanityException"
    /\ op.outcome.msg = ConflictMessage(op.args.domain_name)

ApiRaised(i) ==
    /\ op.outcome.kind = "raise"
    /\ op.outcome.exc = "PythonAnywhereApiException"
    /\ op.outcome.msg.response = Reply(i).status_code
    /\ op.outcome.msg.text = Reply(i).text

Returned(v) == op.outcome.kind = "return" /\ op.outcome.value = v

\* C1: Website.create with nuke=false and a token, whose probe GET on the
\* domain's website endpoint is answered 200, raises the conflict
\* SanityException, and the probe is the only call of the invocation: no POST
\* is issued.
C1_ConflictWithoutPost ==
    (/\ Ran_("Website.create")
     /\ ~op.args.nuke
     /\ ~TokenAbsentOrEmpty
     /\ Len(op.calls) >= 1
     /\ Asked(1) = ProbeOf(op.args.domain_name)
     /\ Reply(1).status_code = 200)
    => /\ ConflictRaised
       /\ Len(op.calls) = 1
       /\ \A i \in 1..Len(op.calls) : ~IsPost(op.calls[i])

C1_Witness ==
    /\ Ran_("Website.create")
    /\ ~op.args.nuke
    /\ ~TokenAbsentOrEmpty
    /\ SitesNamed(server, op.args.domain_name) # {}
    /\ Len(op.calls) = 1
    /\ Reply(1).status_code = 200
    /\ ConflictRaised

\* C2: Website.create with nuke=true and a token issues no GET at all: its
\* only call is the POST to the websites collection endpoint, and it does not
\* raise the conflict SanityException.
C2_NukeSkipsProbe ==
    (Ran_("Website.create") /\ op.args.nuke /\ ~TokenAbsentOrEmpty)
    => /\ Len(op.calls) = 1
       /\ Asked(1) = PostOf(op.args.domain_name, op.args.command)
       /\ \A i \in 1..Len(op.calls) : op.calls[i].request.verb # "GET"
       /\ ~(op.outcome.kind = "raise" /\ op.outcome.exc = "SanityException")

C2_Witness ==
    /\ Ran_("Website.create")
    /\ op.args.nuke
    /\ ~TokenAbsentOrEmpty
    /\ Len(op.calls) = 1
    /\ Reply(1).status_code = 201
    /\ Returned(CreateJson(op.args.domain_name, op.args.command))
    /\ Cardinality(server.websites) = 2

\* C3: with the token absent or empty, Website.sanity_check and
\* Website.create raise the configuration SanityException whatever nuke is,
\* before any network call: no request is issued and the server's state is
\* unchanged by the invocation.
C3_NoTokenNoCall ==
    [][(op'.method \in {"Website.sanity_check", "Website.create"}
        /\ TokenAbsentOrEmpty)
       => /\ op'.outcome = RaiseSanity(NoTokenMessage)
          /\ op'.calls = <<>>
          /\ server' = server]_vars

C3_Witness ==
    /\ Ran_("Website.create")
    /\ op.args.nuke
    /\ environ = {<<"API_TOKEN", "">>}
    /\ op.outcome = RaiseSanity(NoTokenMessage)
    /\ op.calls = <<>>

\* C4 as claimed: Schedule.create returns the decoded body on 201, raises
\* the API exception (status and body text) on every non-2xx status, and
\* returns None on every 2xx status other than 201.
C4_AsClaimed ==
    Ran_("Schedule.create")
    => /\ (Reply(1).status_code = 201 /\ Reply(1).text.json)
             => Returned(Reply(1).text.doc)
       /\ ~Is2xx(Reply(1)) => ApiRaised(1)
       /\ (Is2xx(Reply(1)) /\ Reply(1).status_code # 201) => Returned(PyNone)

\* C4, amended: Schedule.create returns the decoded body on 201, raises the
\* API exception (status and body text) on every status for which the
\* response is not ok (4xx, 5xx), and returns None on every other status: a
\* 2xx other than 201, and also a 1xx or 3xx.
C4_CreateOutcomes ==
    Ran_("Schedule.create")
    => /\ Len(op.calls) = 1
       /\ (Reply(1).status_code = 201 /\ Reply(1).text.json)
             => Returned(Reply(1).text.doc)
       /\ (Reply(1).status_code >= 400) => ApiRaised(1)
       /\ (Reply(1).status_code < 400 /\ Reply(1).status_code # 201)
             => Returned(PyNone)

C4_Witness ==
    /\ Ran_("Schedule.create")
    /\ Reply(1).status_code = 304
    /\ Returned(PyNone)

\* C5: Schedule.get_specs and Schedule.update return the decoded body
\* exactly when the status is 200, and raise the API exception on every other
\* status, 201 and 204 included.
C5_Only200Succeeds ==
    (Ran_("Schedule.get_specs") \/ Ran_("Schedule.update"))
    => /\ Len(op.calls) = 1
       /\ (Reply(1).status_code = 200 /\ Reply(1).text.json)
             => Returned(Reply(1).text.doc)
       /\ Reply(1).status_code # 200 => ApiRaised(1)
       /\ op.outcome.kind = "return" => Reply(1).status_code = 200

C5_Witness ==
    /\ Ran_("Schedule.update")
    /\ Reply(1).status_code = 204
    /\ ApiRaised(1)

\* C6: Schedule.delete returns True on 204, raises the API exception on a
\* status that is not 204 and not ok, and returns None on a status that is
\* not 204 but ok.
C6_DeleteOutcomes ==
    Ran_("Schedule.delete")
    => /\ Len(op.calls) = 1
       /\ Reply(1).status_code = 204 => Returned(PyTrue)
       /\ (Reply(1).status_code # 204 /\ Reply(1).status_code >= 400)
             => ApiRaised(1)
       /\ (Reply(1).status_code # 204 /\ Reply(1).status_code < 400)
             => Returned(PyNone)

C6_Witness ==
    /\ Ran_("Schedule.delete")
    /\ Reply(1).status_code = 200
    /\ Returned(PyNone)

\* An id the server handed out and no longer holds.
Deleted(srv, task_id) ==
    task_id < srv.nextId /\ TasksWithId(srv, ToString(task_id)) = {}

\* C7: against a server that keeps its contract, Schedule.delete of a task
\* the server holds returns True and removes it; a removed id is never held
\* again, whatever is created later; and Schedule.get_specs of a removed id
\* raises the API exception.
C7_DeleteIsTerminal ==
    [][/\ (op'.method = "Schedule.delete"
           /\ TasksWithId(server, ToString(op'.args.task_id)) # {})
          => /\ op'.outcome = Return(PyTrue)
             /\ Deleted(server', op'.args.task_id)
       /\ \A id \in TaskIds : Deleted(server, id) => Deleted(server', id)
       /\ (op'.method = "Schedule.get_specs" /\ Deleted(server, op'.args.task_id))
          => /\ op'.outcome.kind = "raise"
             /\ op'.outcome.exc = "PythonAnywhereApiException"]_vars

C7_Witness ==
    /\ Ran_("Schedule.get_specs")
    /\ Deleted(server, op.args.task_id)
    /\ server.tasks # {}
    /\ ApiRaised(1)
    /\ Reply(1).status_code = 404

\* C8: Website.get_ssl_info issues one GET to the domain's ssl endpoint; when
\* the response is ok it returns the decoded body unchanged, and when it is
\* not ok it raises the API exception and returns nothing.
C8_SslInfoPassThrough ==
    Ran_("Website.get_ssl_info")
    => /\ Len(op.calls) = 1
       /\ Asked(1) = Request(SslUrl(op.args.domain_name), "GET")
       /\ (Reply(1).status_code < 400 /\ Reply(1).text.json)
             => Returned(Reply(1).text.doc)
       /\ Reply(1).status_code >= 400 => ApiRaised(1)

C8_Witness ==
    /\ Ran_("Website.get_ssl_info")
    /\ CertsNamed(server, op.args.domain_name) # {}
    /\ Reply(1).status_code = 200
    /\ Returned([cert_type |-> "letsencrypt-auto-renew", issuer |-> "Let's Encrypt"])

\* C9 as claimed: whenever Schedule.create or Website.create returns a
\* mapping normally, the response to its POST had a 2xx status.
C9_AsClaimed ==
    ((Ran_("Schedule.create") \/ Ran_("Website.create"))
     /\ op.outcome.kind = "return"
     /\ op.outcome.value # PyNone)
    => Is2xx(Reply(Len(op.calls)))

\* C10: no invocation issues more than two calls; two calls are issued only
\* by Website.create with a token and nuke=false, the probe GET and then the
\* POST; Website.sanity_check issues at most one; every method outside the
\* create / sanity-check path issues exactly one; and no request is issued
\* twice in one invocation.
C10_CallsPerInvocation ==
    /\ Len(op.calls) <= 2
    /\ Len(op.calls) = 2
         => /\ Ran_("Website.create")
            /\ ~TokenAbsentOrEmpty
            /\ ~op.args.nuke
            /\ Asked(1) = ProbeOf(op.args.domain_name)
            /\ Asked(2) = PostOf(op.args.domain_name, op.args.command)
    /\ Ran_("Website.sanity_check") => Len(op.calls) <= 1
    /\ op.method \notin {"none", "Website.create", "Website.sanity_check"}
         => Len(op.calls) = 1
    /\ \A i, j \in 1..Len(op.calls) : i # j => Asked(i) # Asked(j)

C10_Witness ==
    /\ Ran_("Website.create")
    /\ Len(op.calls) = 2
    /\ Reply(1).status_code = 500
    /\ Reply(2).status_code = 500

====
